---- MODULE Spec2Model ----
(***************************************************************************)
(* Model of Lib/ensurepip: the URL descriptor parser, the hash verifier,   *)
(* the download-and-cache loop (_ensure_wheels_are_downloaded) and its     *)
(* caller _bootstrap.                                                      *)
(*                                                                         *)
(* Text (URLs, file names, hex digests) is a sequence of tokens; a token   *)
(* stands for one character or for an unbroken run of ordinary characters  *)
(* ("https", "host", "sha256", "pip.whl").  File content is a sequence of  *)
(* bytes.                                                                  *)
(***************************************************************************)
EXTENDS Integers, Sequences, FiniteSets, TLC

\* ------------------------------------------------------------------ bounds
\* Longest file content, in bytes.
MaxLen == 1
\* Number of distinct digests of the modelled hash function.
DigestSpace == 4
\* Most fragment parameters of a generated URL.
MaxParams == 3
\* Most calls of _ensure_wheels_are_downloaded one process makes.
MaxCalls == 2

\* ------------------------------------------------------------ Python values
NoneVal == [tag |-> "None", val |-> <<>>]
StrVal(s) == [tag |-> "str", val |-> s]
ListVal(l) == [tag |-> "list", val |-> l]

\* ------------------------------------------------------------- str methods
\* s.find(c), 1-based; 0 when c does not occur.
Find(s, c) ==
  IF \E i \in 1..Len(s) : s[i] = c
  THEN CHOOSE i \in 1..Len(s) : s[i] = c /\ \A j \in 1..(i - 1) : s[j] /= c
  ELSE 0

\* s.rfind(c), 1-based; 0 when c does not occur.
RFind(s, c) ==
  IF \E i \in 1..Len(s) : s[i] = c
  THEN CHOOSE i \in 1..Len(s) : s[i] = c /\ \A j \in (i + 1)..Len(s) : s[j] /= c
  ELSE 0

\* s.split(c, 1)
SplitOnce(s, c) ==
  LET i == Find(s, c)
  IN  IF i = 0 THEN <<s>> ELSE <<SubSeq(s, 1, i - 1), SubSeq(s, i + 1, Len(s))>>

\* s.split(c)
RECURSIVE SplitAll(_, _)
SplitAll(s, c) ==
  LET i == Find(s, c)
  IN  IF i = 0 THEN <<s>>
      ELSE <<SubSeq(s, 1, i - 1)>> \o SplitAll(SubSeq(s, i + 1, Len(s)), c)

\* s.rpartition(c): <<head, sep, tail>>
RPartition(s, c) ==
  LET i == RFind(s, c)
  IN  IF i = 0 THEN <<<<>>, <<>>, s>>
      ELSE <<SubSeq(s, 1, i - 1), <<c>>, SubSeq(s, i + 1, Len(s))>>

\* s.strip()
RECURSIVE LStrip(_)
LStrip(s) == IF s /= <<>> /\ Head(s) = " " THEN LStrip(Tail(s)) ELSE s
RECURSIVE RStrip(_)
RStrip(s) ==
  IF s /= <<>> /\ s[Len(s)] = " " THEN RStrip(SubSeq(s, 1, Len(s) - 1)) ELSE s
Strip(s) == RStrip(LStrip(s))

\* ------------------------------------------------------------ urllib.parse
NotSchemeChars == {"/", "#", "?", "&", "=", " ", ":"}

\* urllib.parse.urlsplit(url): scheme, netloc, path, query, fragment.
UrlSplit(url) ==
  LET i       == Find(url, ":")
      hasSch  == i > 1 /\ \A j \in 1..(i - 1) : url[j] \notin NotSchemeChars
      scheme  == IF hasSch THEN SubSeq(url, 1, i - 1) ELSE <<>>
      r1      == IF hasSch THEN SubSeq(url, i + 1, Len(url)) ELSE url
      hasLoc  == Len(r1) >= 2 /\ r1[1] = "/" /\ r1[2] = "/"
      ends    == {k \in 3..Len(r1) : r1[k] \in {"/", "?", "#"}}
      delim   == IF ends = {} THEN Len(r1) + 1
                 ELSE CHOOSE k \in ends : \A m \in ends : k <= m
      netloc  == IF hasLoc THEN SubSeq(r1, 3, delim - 1) ELSE <<>>
      r2      == IF hasLoc THEN SubSeq(r1, delim, Len(r1)) ELSE r1
      fs      == SplitOnce(r2, "#")
      frag    == IF Len(fs) = 2 THEN fs[2] ELSE <<>>
      qs      == SplitOnce(fs[1], "?")
      query   == IF Len(qs) = 2 THEN qs[2] ELSE <<>>
  IN  [scheme |-> scheme, netloc |-> netloc, path |-> qs[1],
       query |-> query, fragment |-> frag]

\* urllib.parse.parse_qsl(qs): the <<name, value>> pairs in order; fields
\* that are empty, have no "=" or have a blank value are dropped
\* (keep_blank_values and strict_parsing are off).
RECURSIVE PairsOf(_)
PairsOf(fields) ==
  IF fields = <<>> THEN <<>>
  ELSE LET nv   == SplitOnce(Head(fields), "=")
           keep == Head(fields) /= <<>> /\ Len(nv) = 2 /\ Len(nv[2]) > 0
       IN  (IF keep THEN <<nv>> ELSE <<>>) \o PairsOf(Tail(fields))

ParseQsl(qs) == PairsOf(SplitAll(qs, "&"))

\* urllib.parse.parse_qs(qs).get(key): the list of the key's values in
\* order, or None when the dict has no such key.
DictGet(pairs, key) ==
  LET vals == SelectSeq(pairs, LAMBDA nv : nv[1] = key)
  IN  IF vals = <<>> THEN NoneVal
      ELSE ListVal([k \in 1..Len(vals) |-> vals[k][2]])

\* ------------------------------------------------- URL descriptor parser
\* iter(x) raises TypeError when x is None; next(it, None) yields the first
\* element, or None for an empty list.
_extract_sha256_from_url_fragment(url) ==
  LET url_fragment == Strip(UrlSplit(url).fragment)
      got == DictGet(ParseQsl(url_fragment), <<"sha256">>)
  IN  IF got.tag = "None" THEN [raised |-> "TypeError", ret |-> NoneVal]
      ELSE IF got.val = <<>> THEN [raised |-> "", ret |-> NoneVal]
      ELSE [raised |-> "", ret |-> StrVal(got.val[1])]

_get_name_and_url(url) ==
  LET url_path  == UrlSplit(url).path
      file_name == RPartition(url_path, "/")[3]
      sha256    == _extract_sha256_from_url_fragment(url)
  IN  [raised |-> sha256.raised, file_name |-> file_name, url |-> url,
       sha256 |-> sha256.ret]

\* _get_name_and_url(url)[0].split('-')[:2]
_get_name_and_version(url) ==
  LET pieces == SplitAll(_get_name_and_url(url).file_name, "-")
  IN  SubSeq(pieces, 1, IF Len(pieces) < 2 THEN Len(pieces) ELSE 2)

\* ------------------------------------------------------------ hash verifier
Bytes == {"x", "y"}
Contents == UNION {[1..n -> Bytes] : n \in 0..MaxLen}

ByteVal(b) == IF b = "x" THEN 1 ELSE 2

\* The digest of a byte string, as a number: a small stand-in for SHA-256
\* (deterministic, depends on every byte, collisions are rare but exist).
RECURSIVE DigestNum(_)
DigestNum(c) ==
  IF c = <<>> THEN 0
  ELSE (3 * DigestNum(SubSeq(c, 1, Len(c) - 1)) + ByteVal(c[Len(c)])) % DigestSpace

HexDigits == <<"a", "b", "c">>

\* hashlib.sha256(content).hexdigest(): two hex digits.
HexDigest(c) ==
  LET n == DigestNum(c)
  IN  <<HexDigits[(n \div 3) + 1], HexDigits[(n % 3) + 1]>>

\* (faulty variant: the digest is not compared)
IsValidAlways(content, sha256) == TRUE

_is_content_sha256_valid(content, sha256) ==
  sha256.tag = "None" \/ sha256.val = HexDigest(content)

\* ------------------------------------------------------------ configuration
UrlPrefix == <<"https", ":", "/", "/", "host">>

SetuptoolsWhl == <<"setuptools", "-", "41.0.0", "-", "py2.py3", "-", "any.whl">>
PipWhl == <<"pip", "-", "19.0.3", "-", "py2.py3", "-", "any.whl">>

SetuptoolsUrl ==
  UrlPrefix \o <<"/", "c8", "/">> \o SetuptoolsWhl \o <<"#", "sha256", "=", "a", "b">>
PipUrl ==
  UrlPrefix \o <<"/", "d8", "/">> \o PipWhl \o <<"#", "sha256", "=", "a", "c">>
\* The same URLs with no hash in the fragment.
PipUrlNoFragment == UrlPrefix \o <<"/", "d8", "/">> \o PipWhl
SetuptoolsUrlOtherKey ==
  UrlPrefix \o <<"/", "c8", "/">> \o SetuptoolsWhl \o <<"#", "md5", "=", "a", "b">>

_PROJECT_URLS == <<SetuptoolsUrl, PipUrl>>

\* The descriptor lists the loop is run on: the shipped one, and lists
\* holding a URL that names no hash.
UrlLists ==
  { _PROJECT_URLS, <<SetuptoolsUrl, PipUrlNoFragment>>,
    <<SetuptoolsUrlOtherKey, PipUrl>> }

\* Names of the files of the cache directory (ensurepip/_bundled).
Names == {SetuptoolsWhl, PipWhl}

Missing == [exists |-> FALSE, data |-> <<>>]
File(c) == [exists |-> TRUE, data |-> c]
FileStates == {Missing} \cup {File(c) : c \in Contents}

Procs == {1, 2}
Verbosities == {0, 1}

VARIABLES
  project_urls,  \* the list _PROJECT_URLS the loop iterates over
  cache,         \* the files of the cache directory, by name
  proc,          \* per process: its position in the loop and its locals
  sawPartial,    \* a read has returned a file another process is writing
  parts,         \* parser check: the pieces the input URL is built from
  parsed,        \* parser check: what _get_name_and_url returned
  boot           \* _bootstrap: its position, arguments and effects

vars == <<project_urls, cache, proc, sawPartial, parts, parsed, boot>>

NoOutcome == [kind |-> "none", at |-> 0, op |-> "", url |-> <<>>]
Raised(kind, at, op, url) == [kind |-> kind, at |-> at, op |-> op, url |-> url]
Returned == [kind |-> "returned", at |-> 0, op |-> "", url |-> <<>>]

NoWheel == [raised |-> "", file_name |-> <<>>, url |-> <<>>, sha256 |-> NoneVal]

\* What is kept of the call before the current one.
NoSummary == [kind |-> "none", fetches |-> 0, writes |-> 0]
Summary(r) ==
  [kind |-> r.outcome.kind, fetches |-> Len(r.fetched), writes |-> Len(r.written)]

IdleProc(c) ==
  [pc |-> "idle", bundled_dir |-> <<>>, idx |-> 0, wheel |-> NoWheel,
   data |-> <<>>,
   outcome |-> NoOutcome, verbosity |-> 0, log |-> <<>>, fetched |-> <<>>,
   written |-> <<>>, cache0 |-> c, calls |-> 0, prev |-> NoSummary]

\* (faulty variant: the test of verbosity is inverted)
EmitWhenQuiet(log, verbosity, kind, file_name) ==
  IF verbosity = 0 THEN Append(log, <<kind, file_name>>) ELSE log

\* print(..., file=sys.stderr) under "if verbosity:"
Emit(log, verbosity, kind, file_name) ==
  IF verbosity /= 0 THEN Append(log, <<kind, file_name>>) ELSE log

\* ------------------------------------------ _ensure_wheels_are_downloaded
SetProc(p, r) == proc' = [proc EXCEPT ![p] = r]

\* whl_file_path = bundled_dir / wheel_file_name: the file of the wheel
\* process p is at.  bundled_dir is the _bundled directory of the ensurepip
\* package the process runs; <<>> stands for the one all files are named
\* relative to.
whl_file_path(p) == proc[p].bundled_dir \o proc[p].wheel.file_name

\* A call of _ensure_wheels_are_downloaded(verbosity=v) begins: the lazy
\* map over _PROJECT_URLS is built, nothing is parsed or read yet.
StartCall(p, v) ==
  /\ proc[p].pc \in {"idle", "done"}
  /\ proc[p].calls < MaxCalls
  /\ SetProc(p, [proc[p] EXCEPT
       !.pc = "next", !.idx = 1, !.wheel = NoWheel, !.data = <<>>,
       !.outcome = NoOutcome, !.verbosity = v, !.log = <<>>,
       !.fetched = <<>>, !.written = <<>>, !.cache0 = cache,
       !.calls = @ + 1,
       !.prev = IF proc[p].pc = "done" THEN Summary(proc[p]) ELSE @])
  /\ UNCHANGED <<project_urls, cache, sawPartial, parts, parsed, boot>>

\* The for loop finds the list exhausted: the call returns.
Return(p) ==
  /\ proc[p].pc = "next"
  /\ proc[p].idx > Len(project_urls)
  /\ SetProc(p, [proc[p] EXCEPT !.pc = "done", !.outcome = Returned])
  /\ UNCHANGED <<project_urls, cache, sawPartial, parts, parsed, boot>>

\* (faulty variant: the list is gone through from its end)
WheelUrlReversed(k) == project_urls[Len(project_urls) + 1 - k]

\* The URL of the k-th item of map(_get_name_and_url, _PROJECT_URLS).
WheelUrl(k) == project_urls[k]

\* The for loop takes the next item of map(_get_name_and_url, ...).
NextWheel(p) ==
  /\ proc[p].pc = "next"
  /\ proc[p].idx <= Len(project_urls)
  /\ \E w \in {_get_name_and_url(WheelUrl(proc[p].idx))} :
         /\ w.raised = ""
         /\ SetProc(p, [proc[p] EXCEPT !.pc = "read", !.wheel = w])
  /\ UNCHANGED <<project_urls, cache, sawPartial, parts, parsed, boot>>

\* ... and _get_name_and_url raises: the error leaves the call.
NextWheelRaises(p) ==
  /\ proc[p].pc = "next"
  /\ proc[p].idx <= Len(project_urls)
  /\ \E w \in {_get_name_and_url(WheelUrl(proc[p].idx))} :
         /\ w.raised /= ""
         /\ SetProc(p, [proc[p] EXCEPT
              !.pc = "done",
              !.outcome = Raised(w.raised, proc[p].idx, "parse", <<>>)])
  /\ UNCHANGED <<project_urls, cache, sawPartial, parts, parsed, boot>>

\* Another process has the file open for writing, truncated, its data not
\* yet written.
BeingWritten(p, name) ==
  \E q \in Procs \ {p} :
    proc[q].pc = "write" /\ whl_file_path(q) = proc[p].bundled_dir \o name

\* (faulty variant: the "continue" is missing, a valid file is downloaded again)
ReadCacheValidNoContinue(p) ==
  /\ proc[p].pc = "read"
  /\ LET f == cache[whl_file_path(p)]
     IN  /\ f.exists
         /\ _is_content_sha256_valid(f.data, proc[p].wheel.sha256)
         /\ SetProc(p, [proc[p] EXCEPT
              !.pc = "download",
              !.log = Emit(@, proc[p].verbosity, "Skipping",
                           proc[p].wheel.file_name)])
  /\ sawPartial' = (sawPartial \/ BeingWritten(p, proc[p].wheel.file_name))
  /\ UNCHANGED <<project_urls, cache, parts, parsed, boot>>

\* (faulty variant: the "continue" is inside "if verbosity:")
ReadCacheValidContinueIfVerbose(p) ==
  /\ proc[p].pc = "read"
  /\ LET f == cache[whl_file_path(p)]
     IN  /\ f.exists
         /\ _is_content_sha256_valid(f.data, proc[p].wheel.sha256)
         /\ SetProc(p, [proc[p] EXCEPT
              !.pc = IF proc[p].verbosity /= 0 THEN "next" ELSE "download",
              !.idx = IF proc[p].verbosity /= 0 THEN @ + 1 ELSE @,
              !.log = Emit(@, proc[p].verbosity, "Skipping",
                           proc[p].wheel.file_name)])
  /\ sawPartial' = (sawPartial \/ BeingWritten(p, proc[p].wheel.file_name))
  /\ UNCHANGED <<project_urls, cache, parts, parsed, boot>>

\* whl_file_path.read_bytes() succeeds and the content is valid: skip.
ReadCacheValid(p) ==
  /\ proc[p].pc = "read"
  /\ LET f == cache[whl_file_path(p)]
     IN  /\ f.exists
         /\ _is_content_sha256_valid(f.data, proc[p].wheel.sha256)
         /\ SetProc(p, [proc[p] EXCEPT
              !.pc = "next", !.idx = @ + 1,
              !.log = Emit(@, proc[p].verbosity, "Skipping",
                           proc[p].wheel.file_name)])
  /\ sawPartial' = (sawPartial \/ BeingWritten(p, proc[p].wheel.file_name))
  /\ UNCHANGED <<project_urls, cache, parts, parsed, boot>>

\* read_bytes() succeeds and the content is not valid: go on to download.
ReadCacheInvalid(p) ==
  /\ proc[p].pc = "read"
  /\ LET f == cache[whl_file_path(p)]
     IN  /\ f.exists
         /\ ~_is_content_sha256_valid(f.data, proc[p].wheel.sha256)
         /\ SetProc(p, [proc[p] EXCEPT
              !.pc = "download",
              !.log = Emit(@, proc[p].verbosity, "Downloading",
                           proc[p].wheel.file_name)])
  /\ sawPartial' = (sawPartial \/ BeingWritten(p, proc[p].wheel.file_name))
  /\ UNCHANGED <<project_urls, cache, parts, parsed, boot>>

\* (faulty variant: every OSError of the read is caught, not only not-found)
ReadCacheErrorSwallowed(p) ==
  /\ proc[p].pc = "read"
  /\ cache[whl_file_path(p)].exists
  /\ SetProc(p, [proc[p] EXCEPT
       !.pc = "download",
       !.log = Emit(@, proc[p].verbosity, "Downloading",
                    proc[p].wheel.file_name)])
  /\ UNCHANGED <<project_urls, cache, sawPartial, parts, parsed, boot>>

\* read_bytes() raises FileNotFoundError, which is swallowed: download.
ReadCacheMissing(p) ==
  /\ proc[p].pc = "read"
  /\ ~cache[whl_file_path(p)].exists
  /\ SetProc(p, [proc[p] EXCEPT
       !.pc = "download",
       !.log = Emit(@, proc[p].verbosity, "Downloading",
                    proc[p].wheel.file_name)])
  /\ UNCHANGED <<project_urls, cache, sawPartial, parts, parsed, boot>>

\* read_bytes() raises another OSError (the file is there but cannot be
\* read): the error leaves the call.
ReadCacheError(p) ==
  /\ proc[p].pc = "read"
  /\ cache[whl_file_path(p)].exists
  /\ SetProc(p, [proc[p] EXCEPT
       !.pc = "done",
       !.outcome = Raised("OSError", proc[p].idx, "read", <<>>)])
  /\ UNCHANGED <<project_urls, cache, sawPartial, parts, parsed, boot>>

\* One invocation of the Fetcher (urlopen + read), as the call records it:
\* for which descriptor, whether it answered, and the body it returned.
Fetch(i, ok, body) == [idx |-> i, ok |-> ok, body |-> body]

\* (faulty variant: the network error is swallowed and the loop goes on)
DownloadNetworkErrorSwallowed(p) ==
  /\ proc[p].pc = "download"
  /\ SetProc(p, [proc[p] EXCEPT
       !.pc = "next", !.idx = @ + 1,
       !.fetched = Append(@, Fetch(proc[p].idx, FALSE, <<>>))])
  /\ UNCHANGED <<project_urls, cache, sawPartial, parts, parsed, boot>>

\* (faulty variant: a failed fetch is tried once more before giving up)
DownloadNetworkErrorRetried(p) ==
  /\ proc[p].pc = "download"
  /\ LET again == \A k \in 1..Len(proc[p].fetched) :
                    proc[p].fetched[k].idx /= proc[p].idx
     IN  SetProc(p, [proc[p] EXCEPT
           !.pc = IF again THEN "download" ELSE "done",
           !.fetched = Append(@, Fetch(proc[p].idx, FALSE, <<>>)),
           !.outcome = IF again THEN @
                       ELSE Raised("URLError", proc[p].idx, "fetch", <<>>)])
  /\ UNCHANGED <<project_urls, cache, sawPartial, parts, parsed, boot>>

\* _download: urlopen(url) raises (URLError): the error leaves the call.
DownloadNetworkError(p) ==
  /\ proc[p].pc = "download"
  /\ SetProc(p, [proc[p] EXCEPT
       !.pc = "done",
       !.fetched = Append(@, Fetch(proc[p].idx, FALSE, <<>>)),
       !.outcome = Raised("URLError", proc[p].idx, "fetch", <<>>)])
  /\ UNCHANGED <<project_urls, cache, sawPartial, parts, parsed, boot>>

\* (faulty variant: the payload is saved before it is verified)
DownloadInvalidAfterSave(p, c) ==
  /\ proc[p].pc = "download"
  /\ ~_is_content_sha256_valid(c, proc[p].wheel.sha256)
  /\ cache' = [cache EXCEPT ![whl_file_path(p)] = File(c)]
  /\ SetProc(p, [proc[p] EXCEPT
       !.pc = "done",
       !.fetched = Append(@, Fetch(proc[p].idx, TRUE, c)),
       !.outcome = Raised("ValueError", proc[p].idx, "verify",
                          proc[p].wheel.url)])
  /\ UNCHANGED <<project_urls, sawPartial, parts, parsed, boot>>

\* _download: the payload c fails the hash check: ValueError naming the URL.
DownloadInvalid(p, c) ==
  /\ proc[p].pc = "download"
  /\ ~_is_content_sha256_valid(c, proc[p].wheel.sha256)
  /\ SetProc(p, [proc[p] EXCEPT
       !.pc = "done",
       !.fetched = Append(@, Fetch(proc[p].idx, TRUE, c)),
       !.outcome = Raised("ValueError", proc[p].idx, "verify",
                          proc[p].wheel.url)])
  /\ UNCHANGED <<project_urls, cache, sawPartial, parts, parsed, boot>>

\* (faulty variant: _download returns the payload without the hash check)
DownloadUnverified(p, c) ==
  /\ proc[p].pc = "download"
  /\ SetProc(p, [proc[p] EXCEPT
       !.pc = "open",
       !.fetched = Append(@, Fetch(proc[p].idx, TRUE, c)),
       !.data = c,
       !.log = Emit(@, proc[p].verbosity, "Saving", proc[p].wheel.file_name)])
  /\ UNCHANGED <<project_urls, cache, sawPartial, parts, parsed, boot>>

\* (faulty variant: the "Saving" line is not printed)
DownloadValidSilent(p, c) ==
  /\ proc[p].pc = "download"
  /\ _is_content_sha256_valid(c, proc[p].wheel.sha256)
  /\ SetProc(p, [proc[p] EXCEPT
       !.pc = "open",
       !.fetched = Append(@, Fetch(proc[p].idx, TRUE, c)),
       !.data = c])
  /\ UNCHANGED <<project_urls, cache, sawPartial, parts, parsed, boot>>

\* _download returns the payload c; the "Saving" line is printed.
DownloadValid(p, c) ==
  /\ proc[p].pc = "download"
  /\ _is_content_sha256_valid(c, proc[p].wheel.sha256)
  /\ SetProc(p, [proc[p] EXCEPT
       !.pc = "open",
       !.fetched = Append(@, Fetch(proc[p].idx, TRUE, c)),
       !.data = c,
       !.log = Emit(@, proc[p].verbosity, "Saving", proc[p].wheel.file_name)])
  /\ UNCHANGED <<project_urls, cache, sawPartial, parts, parsed, boot>>

\* (faulty variant: the stale file is removed, and created again by the write)
Unlinked(f) == Missing
\* write_bytes: open(mode='wb') creates or truncates the file.
Truncated(f) == File(<<>>)
OpenForWrite(p) ==
  /\ proc[p].pc = "open"
  /\ cache' = [cache EXCEPT ![whl_file_path(p)] = Truncated(@)]
  /\ SetProc(p, [proc[p] EXCEPT
       !.pc = "write", !.written = Append(@, proc[p].idx)])
  /\ UNCHANGED <<project_urls, sawPartial, parts, parsed, boot>>

\* write_bytes: open() raises OSError; the file is as it was.
OpenForWriteError(p) ==
  /\ proc[p].pc = "open"
  /\ SetProc(p, [proc[p] EXCEPT
       !.pc = "done",
       !.outcome = Raised("OSError", proc[p].idx, "open", <<>>)])
  /\ UNCHANGED <<project_urls, cache, sawPartial, parts, parsed, boot>>

\* f.write(data) at offset 0 of the open file: the first k bytes of data
\* replace the first k bytes of what the file holds.
WriteAt0(old, data, k) ==
  SubSeq(data, 1, k) \o SubSeq(old, k + 1, Len(old))

\* (faulty variant: a short write goes unnoticed, the last byte is not written)
WriteDataShort(p) ==
  /\ proc[p].pc = "write"
  /\ cache' = [cache EXCEPT ![whl_file_path(p)] =
                 File(WriteAt0(@.data, proc[p].data, Len(proc[p].data) - 1))]
  /\ SetProc(p, [proc[p] EXCEPT !.pc = "next", !.idx = @ + 1])
  /\ UNCHANGED <<project_urls, sawPartial, parts, parsed, boot>>

\* write_bytes: the data is written and the file closed; next descriptor.
WriteData(p) ==
  /\ proc[p].pc = "write"
  /\ cache' = [cache EXCEPT ![whl_file_path(p)] =
                 File(WriteAt0(@.data, proc[p].data, Len(proc[p].data)))]
  /\ SetProc(p, [proc[p] EXCEPT !.pc = "next", !.idx = @ + 1])
  /\ UNCHANGED <<project_urls, sawPartial, parts, parsed, boot>>

\* write_bytes: the write raises OSError after k bytes, k short of all.
WriteDataError(p, k) ==
  /\ proc[p].pc = "write"
  /\ k < Len(proc[p].data)
  /\ cache' = [cache EXCEPT ![whl_file_path(p)] =
                 File(WriteAt0(@.data, proc[p].data, k))]
  /\ SetProc(p, [proc[p] EXCEPT
       !.pc = "done",
       !.outcome = Raised("OSError", proc[p].idx, "write", <<>>)])
  /\ UNCHANGED <<project_urls, sawPartial, parts, parsed, boot>>

\* One step of process p inside a call.
Body(p) ==
  \/ Return(p)
  \/ NextWheel(p)
  \/ NextWheelRaises(p)
  \/ ReadCacheValid(p)
  \/ ReadCacheInvalid(p)
  \/ ReadCacheMissing(p)
  \/ ReadCacheError(p)
  \/ DownloadNetworkError(p)
  \/ \E c \in Contents : DownloadInvalid(p, c)
  \/ \E c \in Contents : DownloadValid(p, c)
  \/ OpenForWrite(p)
  \/ OpenForWriteError(p)
  \/ WriteData(p)
  \/ \E k \in 0..MaxLen : WriteDataError(p, k)

\* One step of process p: it begins a call, or goes on with the one it is in.
Step(p) ==
  \/ \E v \in Verbosities : StartCall(p, v)
  \/ Body(p)

NoParts == [path |-> <<>>, query |-> <<>>, hasFragment |-> FALSE, fields |-> <<>>,
            lead |-> FALSE]
NotParsed == [done |-> FALSE, raised |-> "", file_name |-> <<>>, url |-> <<>>,
              sha256 |-> NoneVal]

\* ------------------------------------------------------------ _bootstrap
EnvKeys == {"PIP_INDEX_URL", "PIP_CONFIG_FILE", "ENSUREPIP_OPTIONS"}
\* The keys k with k.startswith("PIP_").
PipKeys == {"PIP_INDEX_URL", "PIP_CONFIG_FILE"}
Unset == "<unset>"
EmptyEnv == [k \in EnvKeys |-> Unset]
Environs ==
  { EmptyEnv,
    [EmptyEnv EXCEPT !["PIP_INDEX_URL"] = "http://mirror",
                     !["PIP_CONFIG_FILE"] = "pip.conf",
                     !["ENSUREPIP_OPTIONS"] = "altinstall"] }

BootRecord(pc, args, env) ==
  [pc |-> pc,                       \* position in _bootstrap
   root |-> args.root, upgrade |-> args.upgrade, user |-> args.user,
   altinstall |-> args.altinstall, default_pip |-> args.default_pip,
   verbosity |-> args.verbosity,
   environ |-> env,                 \* os.environ
   environ0 |-> env,                \* os.environ when _bootstrap was called
   i |-> 0,                         \* position in the copy loop
   tmpdir |-> <<>>,                 \* the wheels copied to the temporary directory
   additional_paths |-> <<>>,
   pip_args |-> <<>>,               \* what pip._internal.main was called with
   pip_runs |-> 0,
   error |-> NoOutcome]
\* The calls of _bootstrap: a bare one and one with every option and -v,
\* each with any of altinstall and default_pip.
BootArgs ==
  { [root |-> o, upgrade |-> o, user |-> o, altinstall |-> a,
     default_pip |-> d, verbosity |-> IF o THEN 1 ELSE 0] :
    o \in BOOLEAN, a \in BOOLEAN, d \in BOOLEAN }
BootOff ==
  BootRecord("off", [root |-> FALSE, upgrade |-> FALSE, user |-> FALSE,
                     altinstall |-> FALSE, default_pip |-> FALSE,
                     verbosity |-> 0], EmptyEnv)

\* One process, any descriptor list, any cache content.
Init ==
  /\ project_urls \in UrlLists
  /\ cache \in [Names -> FileStates]
  /\ proc = [p \in Procs |-> IdleProc(cache)]
  /\ sawPartial = FALSE
  /\ parts = NoParts
  /\ parsed = NotParsed
  /\ boot = BootOff

Next == Step(1)

Spec == Init /\ [][Next]_vars

\* ------------------------------------------------- parser: generated URLs
\* A URL is generated from its pieces, so that what the parser returns can
\* be compared with the pieces the URL was made of.
SegmentPool == {<<>>, <<"d8">>, <<"pip.whl">>}
SegmentLists ==
  {<<>>} \cup {<<a>> : a \in SegmentPool}
         \cup {<<a, b>> : a \in {<<"d8">>}, b \in SegmentPool}
QueryPool == {<<>>, <<"?", "sha256", "=", "b", "/", "v">>}

Field(key, eq, val) == [key |-> key, eq |-> eq, val |-> val]
FieldPool ==
  { Field(<<>>, FALSE, <<>>),
    Field(<<"sha256">>, FALSE, <<>>),
    Field(<<"sha256">>, TRUE, <<>>),
    Field(<<"sha256">>, TRUE, <<"a">>),
    Field(<<"sha256">>, TRUE, <<"b", "/", "a">>),
    Field(<<"sha256">>, TRUE, <<"a", "=", "b">>),
    Field(<<"md5">>, TRUE, <<"a">>) }
FieldLists == UNION {[1..n -> FieldPool] : n \in 0..MaxParams}

PartsSet ==
  [path : SegmentLists, query : QueryPool, hasFragment : BOOLEAN,
   fields : FieldLists, lead : BOOLEAN]

FieldText(f) == f.key \o (IF f.eq THEN <<"=">> \o f.val ELSE <<>>)

RECURSIVE JoinFields(_)
JoinFields(fs) ==
  IF fs = <<>> THEN <<>>
  ELSE IF Len(fs) = 1 THEN FieldText(fs[1])
  ELSE FieldText(fs[1]) \o <<"&">> \o JoinFields(Tail(fs))

RECURSIVE JoinPath(_)
JoinPath(segs) ==
  IF segs = <<>> THEN <<>> ELSE <<"/">> \o Head(segs) \o JoinPath(Tail(segs))

BuildUrl(pt) ==
  UrlPrefix \o JoinPath(pt.path) \o pt.query
    \o (IF pt.hasFragment
        THEN <<"#">> \o (IF pt.lead THEN <<" ">> ELSE <<>>) \o JoinFields(pt.fields)
        ELSE <<>>)

\* _get_name_and_url is applied to the generated URL.
ParseUrl ==
  /\ ~parsed.done
  /\ LET r == _get_name_and_url(BuildUrl(parts))
     IN  parsed' = [done |-> TRUE, raised |-> r.raised, file_name |-> r.file_name,
                    url |-> r.url, sha256 |-> r.sha256]
  /\ UNCHANGED <<project_urls, cache, proc, sawPartial, parts, boot>>

ParseInit ==
  /\ parts \in {pt \in PartsSet : pt.hasFragment \/ (pt.fields = <<>> /\ ~pt.lead)}
  /\ parsed = NotParsed
  /\ project_urls = _PROJECT_URLS
  /\ cache = [n \in Names |-> Missing]
  /\ proc = [p \in Procs |-> IdleProc(cache)]
  /\ sawPartial = FALSE
  /\ boot = BootOff

ParseNext == ParseUrl

ParseSpec == ParseInit /\ [][ParseNext]_vars

\* The pieces a URL was generated from.
LastSegment(pt) == IF pt.path = <<>> THEN <<>> ELSE pt.path[Len(pt.path)]
Sha256Fields(pt) ==
  IF pt.hasFragment THEN SelectSeq(pt.fields, LAMBDA f : f.key = <<"sha256">>)
  ELSE <<>>
NonBlankSha256Fields(pt) ==
  SelectSeq(Sha256Fields(pt), LAMBDA f : f.eq /\ f.val /= <<>>)

\* C5: for a URL with no fragment, or whose fragment has no sha256 key, the
\* parser returns the file name and an absent hash (None) without raising.
C5_MissingHashIsNone ==
  (parsed.done /\ Sha256Fields(parts) = <<>>)
    => /\ parsed.raised = ""
       /\ parsed.sha256 = NoneVal
       /\ parsed.file_name = LastSegment(parts)

\* C6: for a URL whose fragment has a sha256 key, the parser returns the
\* last segment of the URL path as file name and the first sha256 value of
\* the fragment as hash (a blank value counting as no value), whatever else
\* the fragment, the query and the path hold.
C6_FirstSha256Value ==
  (parsed.done /\ Sha256Fields(parts) /= <<>>)
    => /\ parsed.raised = ""
       /\ parsed.file_name = LastSegment(parts)
       /\ NonBlankSha256Fields(parts) /= <<>>
            => parsed.sha256 = StrVal(NonBlankSha256Fields(parts)[1].val)

\* ------------------------------------------------- the descriptors, as data
\* What each URL of UrlLists is made of: its file name and the hash it
\* names (<<>> when it names none).
FileOf(url) ==
  IF url \in {SetuptoolsUrl, SetuptoolsUrlOtherKey}
  THEN SetuptoolsWhl ELSE PipWhl
ExpectedOf(url) ==
  IF url = SetuptoolsUrl THEN <<"a", "b">>
  ELSE IF url = PipUrl THEN <<"a", "c">>
  ELSE <<>>
HasExpected(url) == ExpectedOf(url) /= <<>>

Indices == 1..Len(project_urls)
FileAt(c, i) == c[FileOf(project_urls[i])]

\* The file of descriptor i holds content of the expected hash in cache c.
HashMatches(c, i) ==
  FileAt(c, i).exists /\ HexDigest(FileAt(c, i).data) = ExpectedOf(project_urls[i])
\* The entry of descriptor i is valid in c: by hash, or by mere existence
\* when the descriptor names no hash.
EntryValid(c, i) ==
  IF HasExpected(project_urls[i]) THEN HashMatches(c, i) ELSE FileAt(c, i).exists
\* The file of descriptor i is there in c and fails the hash check.
Corrupted(c, i) ==
  HasExpected(project_urls[i]) /\ FileAt(c, i).exists /\ ~HashMatches(c, i)

FetchesFor(r, i) == Len(SelectSeq(r.fetched, LAMBDA f : f.idx = i))
WritesFor(r, i) == Len(SelectSeq(r.written, LAMBDA j : j = i))
Failed(r) == r.pc = "done" /\ r.outcome.kind \notin {"none", "returned"}
Succeeded(r) == r.pc = "done" /\ r.outcome.kind = "returned"

\* C1: after a call that returns without raising, every descriptor with an
\* expected hash has a cache file whose digest equals that hash.
C1_ReturnImpliesHashesMatch ==
  Succeeded(proc[1])
    => \A i \in Indices : HasExpected(project_urls[i]) => HashMatches(cache, i)

C1_Witness ==
  /\ Succeeded(proc[1])
  /\ Corrupted(proc[1].cache0, 1)
  /\ ~FileAt(proc[1].cache0, 2).exists
  /\ Len(proc[1].fetched) = 2
  /\ \A i \in Indices : HashMatches(cache, i)

\* C2: a fetched body whose hash is not the expected one makes the call
\* raise ValueError naming the URL, and the descriptor's cache file is what
\* it was when the call began (same content, or still missing).
C2_IntegrityRejection ==
  \A k \in 1..Len(proc[1].fetched) :
    LET f == proc[1].fetched[k]
        u == project_urls[f.idx]
    IN  (f.ok /\ HasExpected(u) /\ HexDigest(f.body) /= ExpectedOf(u))
          => /\ Failed(proc[1])
             /\ proc[1].outcome.kind = "ValueError"
             /\ proc[1].outcome.url = u
             /\ proc[1].outcome.at = f.idx
             /\ FileAt(cache, f.idx) = FileAt(proc[1].cache0, f.idx)
             /\ WritesFor(proc[1], f.idx) = 0

C2_Witness ==
  /\ proc[1].outcome.kind = "ValueError"
  /\ proc[1].outcome.at = 2
  /\ Corrupted(proc[1].cache0, 2)
  /\ FileAt(cache, 2) = FileAt(proc[1].cache0, 2)
  /\ Len(proc[1].fetched) = 2
  /\ proc[1].fetched[2].ok
  /\ proc[1].fetched[2].body /= <<>>

\* C3: a call that begins with every descriptor valid in the cache invokes
\* the Fetcher zero times, writes no file and leaves the cache as it was.
C3_ValidCacheNoFetch ==
  (proc[1].calls >= 1 /\ \A i \in Indices : EntryValid(proc[1].cache0, i))
    => /\ proc[1].fetched = <<>>
       /\ proc[1].written = <<>>
       /\ cache = proc[1].cache0

C3_Witness ==
  /\ proc[1].calls = 2
  /\ proc[1].prev.kind = "returned"
  /\ proc[1].prev.fetches = 2
  /\ Succeeded(proc[1])
  /\ proc[1].fetched = <<>>
  /\ cache = proc[1].cache0

\* The call has read descriptor i's file and found it invalid.
FoundInvalid(r, i) ==
  \/ r.idx > i
  \/ r.idx = i /\ r.pc \in {"download", "open", "write"}
  \/ r.idx = i /\ Failed(r) /\ r.outcome.op \in {"fetch", "verify", "open", "write"}
\* The call is through with descriptor i.
DoneWith(r, i) == r.idx > i \/ (r.idx = i /\ r.pc = "done")

\* C4: a cache file that is there with the wrong hash is never deleted;
\* the call that finds it fetches exactly once for that descriptor, and
\* when the fetched content is valid and is written, the file's hash is
\* the expected one.
C4_CorruptionHandling ==
  \A i \in Indices :
    (proc[1].calls >= 1 /\ Corrupted(proc[1].cache0, i))
      => /\ FileAt(cache, i).exists
         /\ (FoundInvalid(proc[1], i) /\ DoneWith(proc[1], i))
              => FetchesFor(proc[1], i) = 1
         /\ FetchesFor(proc[1], i) <= 1
         /\ proc[1].idx > i => (HashMatches(cache, i) /\ WritesFor(proc[1], i) = 1)

C4_Witness ==
  /\ Succeeded(proc[1])
  /\ Corrupted(proc[1].cache0, 2)
  /\ HashMatches(proc[1].cache0, 1)
  /\ FetchesFor(proc[1], 2) = 1
  /\ FetchesFor(proc[1], 1) = 0
  /\ HashMatches(cache, 2)
  /\ FileAt(cache, 2) /= FileAt(proc[1].cache0, 2)

\* C7: a descriptor with no expected hash whose file exists is treated as
\* valid: the call passes it without fetching or writing, and does not fail
\* on it (unless the file cannot be read).
C7_NoHashPassThrough ==
  \A i \in Indices :
    (/\ ~HasExpected(project_urls[i])
     /\ FileAt(proc[1].cache0, i).exists
     /\ proc[1].calls >= 1
     /\ DoneWith(proc[1], i))
      => /\ ~(Failed(proc[1]) /\ proc[1].outcome.at = i
                /\ proc[1].outcome.op /= "read")
         /\ FetchesFor(proc[1], i) = 0
         /\ WritesFor(proc[1], i) = 0

\* C8: a call that fails at descriptor i raises the error of the failing
\* operation, has touched no descriptor after i (no fetch, no write, file
\* as at the start of the call) and leaves every descriptor before i valid;
\* a call that returns leaves every descriptor valid.
C8_AbortKeepsPrefix ==
  /\ Failed(proc[1]) =>
       LET i == proc[1].outcome.at
       IN  /\ proc[1].idx = i
           /\ proc[1].outcome.kind =
                (CASE proc[1].outcome.op = "fetch"  -> "URLError"
                   [] proc[1].outcome.op = "verify" -> "ValueError"
                   [] proc[1].outcome.op = "parse"  -> "TypeError"
                   [] OTHER -> "OSError")
           /\ \A j \in Indices :
                /\ j > i => /\ FileAt(cache, j) = FileAt(proc[1].cache0, j)
                            /\ FetchesFor(proc[1], j) = 0
                            /\ WritesFor(proc[1], j) = 0
                /\ j < i => EntryValid(cache, j)
  /\ Succeeded(proc[1]) => \A j \in Indices : EntryValid(cache, j)

C8_Witness ==
  /\ Failed(proc[1])
  /\ proc[1].outcome.at = 2
  /\ proc[1].outcome.kind = "URLError"
  /\ WritesFor(proc[1], 1) = 1
  /\ ~FileAt(proc[1].cache0, 1).exists
  /\ HashMatches(cache, 1)

\* ------------------------------------------------- _bootstrap: the steps
\* _disable_pip_configuration_settings()
_disable_pip_configuration_settings(env) ==
  [k \in EnvKeys |->
     IF k = "PIP_CONFIG_FILE" THEN "/dev/null"
     ELSE IF k \in PipKeys THEN Unset
     ELSE env[k]]

\* (faulty variant: the arguments are checked after the environment is scrubbed)
BootstrapRejectsAfterScrub ==
  /\ boot.pc = "start"
  /\ boot.altinstall /\ boot.default_pip
  /\ boot' = [boot EXCEPT !.pc = "raised",
                          !.environ = _disable_pip_configuration_settings(@),
                          !.error = Raised("ValueError", 0, "arguments", <<>>)]
  /\ UNCHANGED <<project_urls, cache, proc, sawPartial, parts, parsed>>

\* altinstall and default_pip together: ValueError, before anything else.
BootstrapRejects ==
  /\ boot.pc = "start"
  /\ boot.altinstall /\ boot.default_pip
  /\ boot' = [boot EXCEPT !.pc = "raised",
                          !.error = Raised("ValueError", 0, "arguments", <<>>)]
  /\ UNCHANGED <<project_urls, cache, proc, sawPartial, parts, parsed>>

\* The environment is scrubbed, ENSUREPIP_OPTIONS set, and
\* _ensure_wheels_are_downloaded(verbosity=verbosity) is called.
BootstrapBegins ==
  /\ boot.pc = "start"
  /\ ~(boot.altinstall /\ boot.default_pip)
  /\ LET scrubbed == _disable_pip_configuration_settings(boot.environ)
     IN  boot' = [boot EXCEPT
           !.pc = "ensure",
           !.environ =
             IF boot.altinstall
             THEN [scrubbed EXCEPT !["ENSUREPIP_OPTIONS"] = "altinstall"]
             ELSE IF ~boot.default_pip
             THEN [scrubbed EXCEPT !["ENSUREPIP_OPTIONS"] = "install"]
             ELSE scrubbed]
  /\ SetProc(1, [proc[1] EXCEPT
       !.pc = "next", !.idx = 1, !.wheel = NoWheel, !.data = <<>>,
       !.outcome = NoOutcome, !.verbosity = boot.verbosity, !.log = <<>>,
       !.fetched = <<>>, !.written = <<>>, !.cache0 = cache,
       !.calls = @ + 1])
  /\ UNCHANGED <<project_urls, cache, sawPartial, parts, parsed>>

\* (faulty variant: the error is caught and _bootstrap goes on to copy)
BootstrapEnsureRaisedIgnored ==
  /\ boot.pc = "ensure"
  /\ Failed(proc[1])
  /\ boot' = [boot EXCEPT !.pc = "copy", !.i = 1]
  /\ UNCHANGED <<project_urls, cache, proc, sawPartial, parts, parsed>>

\* _ensure_wheels_are_downloaded raised: the error leaves _bootstrap.
BootstrapEnsureRaised ==
  /\ boot.pc = "ensure"
  /\ Failed(proc[1])
  /\ boot' = [boot EXCEPT !.pc = "raised", !.error = proc[1].outcome]
  /\ UNCHANGED <<project_urls, cache, proc, sawPartial, parts, parsed>>

\* It returned: the temporary directory is made and the copy loop begins.
BootstrapEnsureReturned ==
  /\ boot.pc = "ensure"
  /\ Succeeded(proc[1])
  /\ boot' = [boot EXCEPT !.pc = "copy", !.i = 1]
  /\ UNCHANGED <<project_urls, cache, proc, sawPartial, parts, parsed>>

\* shutil.copy2(bundled_wheel, tmp_wheel_path) for the next wheel.
BootstrapCopy ==
  /\ boot.pc = "copy"
  /\ boot.i <= Len(project_urls)
  /\ \E w \in {_get_name_and_url(project_urls[boot.i])} :
         /\ w.raised = ""
         /\ cache[w.file_name].exists
         /\ boot' = [boot EXCEPT
              !.i = @ + 1,
              !.tmpdir = Append(@, <<w.file_name, cache[w.file_name].data>>),
              !.additional_paths = Append(@, <<"tmpdir", "/">> \o w.file_name)]
  /\ UNCHANGED <<project_urls, cache, proc, sawPartial, parts, parsed>>

\* copy2 raises OSError (the wheel is not there, the temporary directory
\* cannot take it), or the URL does not parse: the error leaves _bootstrap,
\* the temporary directory is removed.
BootstrapCopyRaises ==
  /\ boot.pc = "copy"
  /\ boot.i <= Len(project_urls)
  /\ \E w \in {_get_name_and_url(project_urls[boot.i])} :
         /\ boot' = [boot EXCEPT
              !.pc = "raised", !.tmpdir = <<>>,
              !.error = IF w.raised /= ""
                        THEN Raised(w.raised, boot.i, "parse", <<>>)
                        ELSE Raised("OSError", boot.i, "copy", <<>>)]
  /\ UNCHANGED <<project_urls, cache, proc, sawPartial, parts, parsed>>

\* The arguments _bootstrap gives pip.
PipArgs(b) ==
  <<"install", "--no-index", "--find-links", "tmpdir">>
    \o (IF b.root THEN <<"--root", "root">> ELSE <<>>)
    \o (IF b.upgrade THEN <<"--upgrade">> ELSE <<>>)
    \o (IF b.user THEN <<"--user">> ELSE <<>>)
    \o (IF b.verbosity /= 0 THEN <<<<"-", "v", b.verbosity>>>> ELSE <<>>)
    \o [k \in 1..Len(project_urls) |-> _get_name_and_version(project_urls[k])[1]]

\* _run_pip(args + names, additional_paths); then the temporary directory
\* is removed and pip's status returned.
BootstrapRunPip ==
  /\ boot.pc = "copy"
  /\ boot.i > Len(project_urls)
  /\ boot' = [boot EXCEPT !.pc = "done", !.pip_args = PipArgs(boot),
                          !.pip_runs = @ + 1, !.tmpdir = <<>>]
  /\ UNCHANGED <<project_urls, cache, proc, sawPartial, parts, parsed>>

\* _bootstrap is called once, in one process, on the shipped list.
BootInit ==
  /\ project_urls = _PROJECT_URLS
  /\ cache \in [Names -> FileStates]
  /\ proc = [p \in Procs |-> IdleProc(cache)]
  /\ sawPartial = FALSE
  /\ parts = NoParts
  /\ parsed = NotParsed
  /\ boot \in {BootRecord("start", a, e) : a \in BootArgs, e \in Environs}

BootNext ==
  \/ BootstrapRejects
  \/ BootstrapBegins
  \/ boot.pc = "ensure" /\ Body(1)
  \/ BootstrapEnsureRaised
  \/ BootstrapEnsureReturned
  \/ BootstrapCopy
  \/ BootstrapCopyRaises
  \/ BootstrapRunPip

BootSpec == BootInit /\ [][BootNext]_vars

\* C9: a run of _bootstrap never invokes the Fetcher, and when it runs pip
\* it installs the two distributions from the copied local files.
C9_BootstrapNeverFetches ==
  /\ boot.pc /= "off" => proc[1].fetched = <<>>
  /\ boot.pc = "done" =>
       /\ boot.pip_runs = 1
       /\ SubSeq(boot.pip_args, Len(boot.pip_args) - 1, Len(boot.pip_args))
            = << <<"setuptools">>, <<"pip">> >>

\* --------------------------------------------------------- two processes
\* Two processes each make one call (at verbosity 0) on the same cache
\* directory.
ConcInit ==
  /\ project_urls \in {_PROJECT_URLS, <<SetuptoolsUrl, PipUrlNoFragment>>}
  /\ cache \in [Names -> FileStates]
  /\ proc = [p \in Procs |-> [IdleProc(cache) EXCEPT !.calls = MaxCalls - 1]]
  /\ sawPartial = FALSE
  /\ parts = NoParts
  /\ parsed = NotParsed
  /\ boot = BootOff

ConcNext == \E p \in Procs : StartCall(p, 0) \/ Body(p)

ConcSpec == ConcInit /\ [][ConcNext]_vars

\* Process q has descriptor i's file open, truncated, or its write failed.
MidWrite(q, i) ==
  /\ proc[q].idx = i
  /\ WritesFor(proc[q], i) >= 1
  /\ \/ proc[q].pc = "write"
     \/ Failed(proc[q]) /\ proc[q].outcome.op = "write"

\* C10: with two processes on one cache directory and no lock, a process
\* can have returned successfully while a descriptor's file fails the hash
\* check, and a read can see a file the other process has truncated and not
\* yet written (the reachable state C10_Witness); the lack of atomicity is
\* the only cause: whenever a returned process coexists with a mismatching
\* file, the other process is between its truncation and the end of its
\* write of that file, or its write failed.
C10_MismatchOnlyWhileOtherWrites ==
  \A p \in Procs : \A i \in Indices :
    (Succeeded(proc[p]) /\ ~HashMatches(cache, i))
      => \E q \in Procs \ {p} : MidWrite(q, i)

C10_Witness ==
  /\ sawPartial
  /\ \E p \in Procs : \E i \in Indices :
       /\ Succeeded(proc[p])
       /\ FileAt(cache, i).exists
       /\ ~HashMatches(cache, i)
       /\ \E q \in Procs \ {p} : proc[q].pc = "write" /\ proc[q].idx = i

\* ------------------------------------------------- messages of one call
IsPrefix(s, t) == Len(s) <= Len(t) /\ SubSeq(t, 1, Len(s)) = s

\* Every answer of the Fetcher so far was content of the expected hash.
FetcherValid(r) ==
  \A k \in 1..Len(r.fetched) :
    /\ r.fetched[k].ok
    /\ HexDigest(r.fetched[k].body) = ExpectedOf(project_urls[r.fetched[k].idx])

\* The call of the end-to-end scenario: the shipped two descriptors, neither
\* file there when the call begins, verbosity on, the Fetcher answering
\* with valid content.
EndToEndCase(r) ==
  /\ r.calls >= 1
  /\ project_urls = _PROJECT_URLS
  /\ r.verbosity /= 0
  /\ \A i \in Indices : ~FileAt(r.cache0, i).exists
  /\ FetcherValid(r)

EndToEndLog ==
  << <<"Downloading", SetuptoolsWhl>>, <<"Saving", SetuptoolsWhl>>,
     <<"Downloading", PipWhl>>, <<"Saving", PipWhl>> >>

\* C11: in the end-to-end scenario the messages of the call are, in this
\* order, Downloading(1), Saving(1), Downloading(2), Saving(2) and no
\* other (no "Skipping"); the call can fail only on writing a file; and
\* when it returns, the two files named after the last path segments of
\* the URLs hold content of the expected hashes.
C11_EndToEndMessages ==
  EndToEndCase(proc[1])
    => /\ IsPrefix(proc[1].log, EndToEndLog)
       /\ Failed(proc[1]) => proc[1].outcome.op \in {"open", "write"}
       /\ Succeeded(proc[1])
            => /\ proc[1].log = EndToEndLog
               /\ \A i \in Indices : HashMatches(cache, i)
               /\ \A n \in Names : cache[n].exists

C11_Witness ==
  /\ EndToEndCase(proc[1])
  /\ Succeeded(proc[1])
  /\ proc[1].log = EndToEndLog
  /\ Len(proc[1].fetched) = 2
  /\ \A i \in Indices : HashMatches(cache, i)

\* The lines of the log that name descriptor i's file.
LinesFor(r, i) ==
  SelectSeq(r.log, LAMBDA m : m[2] = FileOf(project_urls[i]))

\* What a call that began on cache c has to say about descriptors i..n.
RECURSIVE LinesFrom(_, _)
LinesFrom(c, i) ==
  IF i > Len(project_urls) THEN <<>>
  ELSE (IF EntryValid(c, i)
        THEN << <<"Skipping", FileOf(project_urls[i])>> >>
        ELSE << <<"Downloading", FileOf(project_urls[i])>>,
                <<"Saving", FileOf(project_urls[i])>> >>)
       \o LinesFrom(c, i + 1)

\* C12 (as stated): at verbosity >= 1 a call that returns has printed
\* exactly one line for each descriptor.
C12_OneLinePerDescriptor ==
  (Succeeded(proc[1]) /\ proc[1].verbosity /= 0)
    => \A i \in Indices : Len(LinesFor(proc[1], i)) = 1

\* C12 (amended): at verbosity >= 1 a call that returns has printed, for
\* each descriptor in list order, one "Skipping" line when its file was
\* valid, and two lines, "Downloading" then "Saving", when its file was
\* missing or invalid; nothing else is printed.
C12_LinesPerDescriptor ==
  (Succeeded(proc[1]) /\ proc[1].verbosity /= 0)
    => /\ proc[1].log = LinesFrom(proc[1].cache0, 1)
       /\ \A i \in Indices :
            Len(LinesFor(proc[1], i)) = IF EntryValid(proc[1].cache0, i) THEN 1 ELSE 2

C12_Witness ==
  /\ Succeeded(proc[1])
  /\ proc[1].verbosity /= 0
  /\ EntryValid(proc[1].cache0, 1)
  /\ Corrupted(proc[1].cache0, 2)
  /\ Len(proc[1].log) = 3
  /\ Len(LinesFor(proc[1], 2)) = 2

\* ------------------------------------------------- fetches of one call
\* The k-th fetch of the call failed: the Fetcher raised, or its answer
\* does not have the expected hash.
FetchFailed(r, k) ==
  \/ ~r.fetched[k].ok
  \/ /\ HasExpected(project_urls[r.fetched[k].idx])
     /\ HexDigest(r.fetched[k].body) /= ExpectedOf(project_urls[r.fetched[k].idx])

\* C13: within one call the Fetcher is invoked at most once for each
\* descriptor, and a fetch that failed (the Fetcher raised, or the hash
\* check rejected its answer) is the last fetch of the call: the call has
\* ended, with the error, at that descriptor.
C13_NoRetry ==
  /\ \A i \in Indices : FetchesFor(proc[1], i) <= 1
  /\ \A k \in 1..Len(proc[1].fetched) :
       FetchFailed(proc[1], k)
         => /\ k = Len(proc[1].fetched)
            /\ Failed(proc[1])
            /\ proc[1].outcome.at = proc[1].fetched[k].idx
            /\ proc[1].outcome.op \in {"fetch", "verify"}

C13_Witness ==
  /\ Failed(proc[1])
  /\ Len(proc[1].fetched) = 2
  /\ ~FetchFailed(proc[1], 1)
  /\ ~proc[1].fetched[2].ok
  /\ proc[1].fetched[2].idx = 2
  /\ proc[1].calls = 2
  /\ proc[1].prev.kind = "ValueError"

\* ------------------------------------------------- what is written
\* What the call is about to write, or is writing, to descriptor i's file
\* is the body it fetched for i, and has the expected hash.
WriteVerified(r) ==
  r.pc \in {"open", "write"}
    => /\ r.fetched /= <<>>
       /\ r.fetched[Len(r.fetched)] = Fetch(r.idx, TRUE, r.data)
       /\ HasExpected(project_urls[r.idx])
       /\ HexDigest(r.data) = ExpectedOf(project_urls[r.idx])

\* A step changes descriptor i's file only as the write of verified content
\* over an entry that is not valid: the process is at i, in write_bytes,
\* and the file comes to hold a prefix of that content (all of it, when
\* the write completes).
WriteStep(i) ==
  FileAt(cache', i) /= FileAt(cache, i)
    => /\ proc[1].idx = i
       /\ WriteVerified(proc[1])
       /\ proc[1].pc \in {"open", "write"}
       /\ ~EntryValid(cache, i)
       /\ FileAt(cache', i).exists
       /\ IsPrefix(FileAt(cache', i).data, proc[1].data)
       /\ proc'[1].idx > i => FileAt(cache', i).data = proc[1].data

\* C14: with one process, over any sequence of calls, returning or
\* failing: whatever a call writes to a descriptor's file has passed the
\* hash check of that descriptor, and no step makes a valid entry invalid.
C14_VerifiedBeforeWrite ==
  /\ [](WriteVerified(proc[1]))
  /\ [][\A i \in Indices :
          /\ WriteStep(i)
          /\ EntryValid(cache, i) => EntryValid(cache', i)]_vars

C14_Witness ==
  /\ proc[1].calls = 2
  /\ proc[1].prev.kind = "URLError"
  /\ proc[1].prev.writes = 1
  /\ HashMatches(proc[1].cache0, 1)
  /\ Corrupted(proc[1].cache0, 2)
  /\ proc[1].outcome.kind = "ValueError"
  /\ proc[1].outcome.at = 2
  /\ cache = proc[1].cache0

\* ------------------------------------------------- errors of the read
\* The call has tried to read descriptor i's file.
HasRead(r, i) ==
  \/ r.idx > i
  \/ r.idx = i /\ r.pc \in {"download", "open", "write"}
  \/ r.idx = i /\ Failed(r) /\ r.outcome.op /= "parse"

\* C15: a call that reads a descriptor's file and finds it missing does not
\* fail on the read: it goes on to fetch that descriptor (once); a call
\* whose read fails for another reason ends with that error at that
\* descriptor, the file being there, and has made no fetch and no write
\* for that descriptor or a later one, whose files are as they were; and
\* a fetch is made only for a descriptor whose file was missing or invalid.
C15_OnlyNotFoundSwallowed ==
  /\ \A i \in Indices :
       (proc[1].calls >= 1 /\ ~FileAt(proc[1].cache0, i).exists
          /\ HasRead(proc[1], i))
         => /\ ~(Failed(proc[1]) /\ proc[1].outcome.at = i
                   /\ proc[1].outcome.op = "read")
            /\ \/ proc[1].idx = i /\ proc[1].pc = "download"
               \/ FetchesFor(proc[1], i) = 1
  /\ (Failed(proc[1]) /\ proc[1].outcome.op = "read")
       => /\ proc[1].outcome.kind = "OSError"
          /\ proc[1].idx = proc[1].outcome.at
          /\ FileAt(proc[1].cache0, proc[1].outcome.at).exists
          /\ \A j \in Indices :
               j >= proc[1].outcome.at
                 => /\ FetchesFor(proc[1], j) = 0
                    /\ WritesFor(proc[1], j) = 0
                    /\ FileAt(cache, j) = FileAt(proc[1].cache0, j)
  /\ \A i \in Indices :
       FetchesFor(proc[1], i) >= 1 => ~EntryValid(proc[1].cache0, i)

C15_Witness ==
  /\ Failed(proc[1])
  /\ proc[1].outcome.op = "read"
  /\ proc[1].outcome.at = 2
  /\ ~FileAt(proc[1].cache0, 1).exists
  /\ FetchesFor(proc[1], 1) = 1
  /\ WritesFor(proc[1], 1) = 1
  /\ FetchesFor(proc[1], 2) = 0

\* ------------------------------------------------- order of the work
\* Descriptor j was skipped as valid, or fetched, verified and written.
Settled(r, j) ==
  \/ /\ EntryValid(r.cache0, j)
     /\ FetchesFor(r, j) = 0
     /\ WritesFor(r, j) = 0
     /\ FileAt(cache, j) = FileAt(r.cache0, j)
  \/ /\ ~EntryValid(r.cache0, j)
     /\ FetchesFor(r, j) = 1
     /\ WritesFor(r, j) = 1
     /\ \E k \in 1..Len(r.fetched) :
          r.fetched[k] = Fetch(j, TRUE, FileAt(cache, j).data)
     /\ HashMatches(cache, j)
\* Nothing was done for descriptor j.
Untouched(r, j) ==
  /\ FetchesFor(r, j) = 0
  /\ WritesFor(r, j) = 0
  /\ FileAt(cache, j) = FileAt(r.cache0, j)

Increasing(s) == \A a, b \in 1..Len(s) : a < b => s[a] < s[b]

\* C16: a call works on one descriptor at a time, in list order
\* (setuptools, then pip): the file it reads, fetches or writes is that of
\* the descriptor it is at; every descriptor before it was skipped as valid
\* or fetched, verified and written; nothing was done for any descriptor
\* after it; fetches and writes were made in list order; and no two
\* fetches are in progress at once.
C16_SequentialInListOrder ==
  proc[1].calls >= 1
    => /\ \A j \in Indices :
            /\ j < proc[1].idx => Settled(proc[1], j)
            /\ j > proc[1].idx => Untouched(proc[1], j)
       /\ Increasing([k \in 1..Len(proc[1].fetched) |-> proc[1].fetched[k].idx])
       /\ Increasing(proc[1].written)
       /\ proc[1].pc \in {"read", "download", "open", "write"}
            => /\ proc[1].idx \in Indices
               /\ proc[1].wheel.file_name = FileOf(project_urls[proc[1].idx])
               /\ proc[1].wheel.url = project_urls[proc[1].idx]
               /\ proc[1].wheel.file_name =
                    IF proc[1].idx = 1 THEN SetuptoolsWhl ELSE PipWhl
       /\ Cardinality({p \in Procs : proc[p].pc = "download"}) <= 1

C16_Witness ==
  /\ proc[1].pc = "download"
  /\ proc[1].idx = 2
  /\ proc[1].wheel.file_name = PipWhl
  /\ ~EntryValid(proc[1].cache0, 1)
  /\ Settled(proc[1], 1)
  /\ FileAt(cache, 2) = FileAt(proc[1].cache0, 2)

\* ------------------------------------------------- two runs, two verbosities
\* The same call is made twice, each in an installation of its own (its
\* own _bundled directory) holding the same files: once at verbosity 0, by
\* process 1, then at verbosity 1, by process 2.
TwinDir == <<"twin", "/">>
Quiet == 1
Verbose == 2

TwinInit ==
  /\ project_urls \in {_PROJECT_URLS, <<SetuptoolsUrl, PipUrlNoFragment>>}
  /\ cache \in { [f \in Names \cup {TwinDir \o n : n \in Names} |->
                    IF f \in Names THEN c[f]
                    ELSE c[SubSeq(f, Len(TwinDir) + 1, Len(f))]] :
                 c \in [Names -> FileStates] }
  /\ proc = [p \in Procs |->
               [IdleProc(cache) EXCEPT
                  !.calls = MaxCalls - 1,
                  !.bundled_dir = IF p = Quiet THEN <<>> ELSE TwinDir]]
  /\ sawPartial = FALSE
  /\ parts = NoParts
  /\ parsed = NotParsed
  /\ boot = BootOff

TwinNext ==
  \/ StartCall(Quiet, 0)
  \/ Body(Quiet)
  \/ proc[Quiet].pc = "done" /\ StartCall(Verbose, 1)
  \/ Body(Verbose)

TwinSpec == TwinInit /\ [][TwinNext]_vars

\* Descriptor i's file in the directory of process p.
FileIn(p, i) == cache[proc[p].bundled_dir \o FileOf(project_urls[i])]

\* The Fetcher gave the two runs the same answer wherever both asked it
\* for the same descriptor.
SameFetcher ==
  \A a \in 1..Len(proc[Quiet].fetched), b \in 1..Len(proc[Verbose].fetched) :
    proc[Quiet].fetched[a].idx = proc[Verbose].fetched[b].idx
      => proc[Quiet].fetched[a] = proc[Verbose].fetched[b]

\* The failure of the file system the run met, if any.
FsFault(r) ==
  IF Failed(r) /\ r.outcome.op \in {"read", "open", "write"}
  THEN <<r.outcome.op, r.outcome.at>>
  ELSE <<>>

BothDone == proc[Quiet].pc = "done" /\ proc[Verbose].pc = "done"

\* C17: two runs from the same files, given the same answers by the
\* Fetcher and the same failures by the file system, one at verbosity 0 and
\* one at verbosity 1, make the same fetches and the same writes in the
\* same order, end with the same outcome and the same files (but for how
\* much of the file a failed write has written); the run at verbosity 0
\* prints nothing.
C17_VerbosityOnlyMessages ==
  /\ proc[Quiet].log = <<>>
  /\ (BothDone /\ SameFetcher /\ FsFault(proc[Quiet]) = FsFault(proc[Verbose]))
       => /\ proc[Quiet].fetched = proc[Verbose].fetched
          /\ proc[Quiet].written = proc[Verbose].written
          /\ proc[Quiet].outcome = proc[Verbose].outcome
          /\ \A i \in Indices :
               \/ FileIn(Quiet, i) = FileIn(Verbose, i)
               \/ /\ proc[Quiet].outcome.op = "write"
                  /\ proc[Quiet].outcome.at = i

C17_Witness ==
  /\ BothDone
  /\ SameFetcher
  /\ proc[Quiet].verbosity = 0
  /\ proc[Verbose].verbosity = 1
  /\ proc[Quiet].outcome.kind = "ValueError"
  /\ proc[Verbose].outcome = proc[Quiet].outcome
  /\ Len(proc[Quiet].fetched) = 2
  /\ proc[Verbose].fetched = proc[Quiet].fetched
  /\ proc[Quiet].log = <<>>
  /\ Len(proc[Verbose].log) = 3

\* ------------------------------------------------- _bootstrap: its order
\* _bootstrap has copied a wheel or run pip.
Installing ==
  \/ boot.pc \in {"copy", "done"}
  \/ boot.additional_paths /= <<>>
  \/ boot.tmpdir /= <<>>
  \/ boot.pip_runs >= 1

\* C18: _bootstrap copies wheels and runs pip only after
\* _ensure_wheels_are_downloaded has returned; when that call raises, the
\* same error leaves _bootstrap, no wheel has been copied and pip is not
\* run; pip is run at most once.
C18_PipOnlyAfterEnsure ==
  boot.pc /= "off"
    => /\ Installing => Succeeded(proc[1])
       /\ Failed(proc[1])
            => /\ boot.pc \in {"ensure", "raised"}
               /\ ~Installing
               /\ boot.pc = "raised" => boot.error = proc[1].outcome
       /\ boot.pip_runs <= 1
       /\ boot.pip_runs = 1 <=> boot.pc = "done"

C18_Witness ==
  /\ boot.pc = "raised"
  /\ Failed(proc[1])
  /\ boot.error = proc[1].outcome
  /\ boot.error.kind = "ValueError"
  /\ boot.error.at = 2
  /\ WritesFor(proc[1], 1) = 1
  /\ boot.pip_runs = 0
  /\ boot.additional_paths = <<>>

\* C19: _bootstrap called with altinstall and default_pip both set ends
\* with ValueError and nothing else has happened: os.environ is as it was,
\* _ensure_wheels_are_downloaded was not called (no file read or written,
\* no fetch), no wheel was copied and pip was not run.
C19_RejectsBeforeAnyEffect ==
  (boot.pc /= "off" /\ boot.altinstall /\ boot.default_pip)
    => /\ boot.pc \in {"start", "raised"}
       /\ boot.pc = "raised"
            => boot.error = Raised("ValueError", 0, "arguments", <<>>)
       /\ boot.environ = boot.environ0
       /\ proc[1] = IdleProc(cache)
       /\ ~Installing

C19_Witness ==
  /\ boot.pc = "raised"
  /\ boot.altinstall
  /\ boot.default_pip
  /\ boot.error.kind = "ValueError"
  /\ boot.environ0["PIP_INDEX_URL"] /= Unset
  /\ boot.environ = boot.environ0
  /\ proc[1].calls = 0

====
